---- MODULE Spec2Model ----
(***************************************************************************)
(* A model of artiq/master/worker_db.py: the run-id counter (RIDCounter),  *)
(* the device manager (DeviceManager), the dataset manager                 *)
(* (DatasetManager), and the writer of results (result_dict_to_hdf5).      *)
(*                                                                         *)
(* Text (file names, file contents) is a sequence of one-character         *)
(* strings, so that formatting, parsing and pattern matching are computed  *)
(* character by character as the Python code computes them.                *)
(***************************************************************************)
EXTENDS Integers, Sequences, FiniteSets, TLC

(***************************************************************************)
(* Bounds of the model.                                                    *)
(***************************************************************************)
\* get() calls made on RIDCounter objects during one behaviour
MaxGets == 3
\* orderly process exits (the RIDCounter is constructed again afterwards)
MaxRestarts == 2
\* crashes of the process (SpecCrash only)
MaxCrashes == 2
\* entries (files) present in the results tree at start
MaxFiles == 2
\* device handles constructed before the experiment stops asking for devices
MaxHandles == 4
\* array objects the experiment holds and passes to DatasetManager.set
NumObjs == 2
\* characters of a string value handed to result_dict_to_hdf5
MaxStr == 2

None == "None"

VARIABLES
    \* ---- file system seen by RIDCounter
    cache,        \* contents of cache_filename, or None when the file is absent
    tmp,          \* contents of the temporary file of _update_cache, or None
    tree,         \* results_dir: set of [d, m, f] paths  <root>/d/m/f
    unlistable,   \* directories whose os.listdir raises: <<>> (root), <<d>>, <<d, m>>
    \* ---- the RIDCounter object and the call in progress
    pc,           \* position of the process
    next_rid,     \* self._next_rid (None while no object exists)
    rid,          \* the local rid of get() / _last_rid() / _update_cache()
    caller,       \* who called _update_cache: "init" or "get"
    \* ---- history
    returned,     \* what get() returned, oldest first, over all incarnations:
                  \* [rid |-> the id, run |-> the incarnation that returned it]
    cache0,       \* the cache file when the behaviour started
    old,          \* the cache file when the latest _update_cache was entered
    pending,      \* <<the argument of the latest _update_cache>>, <<>> before any
    gets, restarts, crashes,
    \* ---- DeviceManager
    active_devices,  \* self.active_devices: sequence of [name, dev], oldest first
    stack,           \* the calls of get in progress, outermost first
    made,            \* number of handles constructed so far
    built,           \* the [name, dev] constructed since the last close_devices
    asked,           \* whether get was called since the last close_devices
    obtained,        \* [by |-> a name, dev |-> a handle]: what get returned to
                     \* the constructor of the device asked for under the
                     \* name, since the last close_devices
    ev,              \* what the latest step of the device manager did
    \* ---- DatasetManager
    heap,            \* the array objects: reference -> elements
    local,           \* self.local: key -> reference
    broadcast,       \* self.broadcast.read: key -> <<persist, reference>>
    lastb,           \* key -> <<persist, value, broadcast>> as passed to the
                     \* latest set of the key that was called with persist or
                     \* broadcast true; <<>> if there was none
    dsev,            \* the latest call on the dataset manager and its outcome
    \* ---- result_dict_to_hdf5
    rd,              \* the argument rd: sequence of [name, data], in dict order
    h5f,             \* the argument f, an open file: dataset name -> dataset
    h5ret            \* <<>> before the call, then <<None>> for a return or
                     \* <<the exception raised>>

ridvars == <<cache, tmp, tree, unlistable, pc, next_rid, rid, caller,
             returned, cache0, old, pending, gets, restarts, crashes>>

devvars == <<active_devices, stack, made, built, asked, obtained, ev>>

dsvars == <<heap, local, broadcast, lastb, dsev>>

h5vars == <<rd, h5f, h5ret>>

vars == <<ridvars, devvars, dsvars, h5vars>>

\* what the steps of one component leave alone
notrid == <<devvars, dsvars, h5vars>>
notdev == <<ridvars, dsvars, h5vars>>
notds  == <<ridvars, devvars, h5vars>>
noth5  == <<ridvars, devvars, dsvars>>

(***************************************************************************)
(* Text helpers.                                                           *)
(***************************************************************************)
DigitChars == <<"0", "1", "2", "3", "4", "5", "6", "7", "8", "9">>

IsDigit(c) == \E i \in 1..10 : DigitChars[i] = c

DigitValue(c) == (CHOOSE i \in 1..10 : DigitChars[i] = c) - 1

IsSpace(c) == c \in {" ", "\n", "\t", "\r"}

RECURSIVE StrNat(_)
StrNat(n) ==
    IF n < 10 THEN <<DigitChars[n + 1]>>
    ELSE StrNat(n \div 10) \o <<DigitChars[(n % 10) + 1]>>

\* Python str(n) of an integer
str(n) == IF n < 0 THEN <<"-">> \o StrNat(0 - n) ELSE StrNat(n)

RECURSIVE LStrip(_)
LStrip(s) == IF s # <<>> /\ IsSpace(Head(s)) THEN LStrip(Tail(s)) ELSE s

RECURSIVE RStrip(_)
RStrip(s) ==
    IF s # <<>> /\ IsSpace(s[Len(s)]) THEN RStrip(SubSeq(s, 1, Len(s) - 1)) ELSE s

RECURSIVE DigitsValue(_, _)
DigitsValue(s, acc) ==
    IF s = <<>> THEN acc ELSE DigitsValue(Tail(s), 10 * acc + DigitValue(Head(s)))

\* Python int(s) of a text: surrounding whitespace is dropped, one optional
\* sign, then at least one digit and nothing else; ValueError otherwise.
int(s) ==
    LET t      == RStrip(LStrip(s))
        signed == t # <<>> /\ Head(t) \in {"-", "+"}
        body   == IF signed THEN Tail(t) ELSE t
    IN  IF body # <<>> /\ \A i \in 1..Len(body) : IsDigit(body[i])
        THEN [ok |-> TRUE,
              val |-> IF signed /\ Head(t) = "-"
                      THEN 0 - DigitsValue(body, 0) ELSE DigitsValue(body, 0)]
        ELSE [ok |-> FALSE, val |-> 0]

(***************************************************************************)
(* The results tree.                                                       *)
(***************************************************************************)
DayOk    == <<"2", "0", "2", "0", "-", "0", "1", "-", "0", "2">>
DayBad   == <<"2", "0", "2", "0", "-", "1", "-", "0", "2">>
MinuteOk  == <<"1", "2", "-", "3", "0">>
MinuteBad == <<"1", "2", "3", "0">>
File7    == <<"0", "0", "0", "0", "0", "0", "0", "0", "7", "-", "f", ".", "h", "5">>
File12   == <<"0", "0", "0", "0", "0", "0", "0", "1", "2", "-", ".", "h", "5">>
\* eight digits only
File9    == <<"0", "0", "0", "0", "0", "0", "0", "9", "-", "f", ".", "h", "5">>
\* no dot before the extension
File15   == <<"0", "0", "0", "0", "0", "0", "0", "1", "5", "-", "f", "h", "5">>

DayNames    == {DayOk, DayBad}
MinuteNames == {MinuteOk, MinuteBad}
FileNames   == {File7, File12, File9, File15}

AllPaths == [d : DayNames, m : MinuteNames, f : FileNames]

Trees == {t \in SUBSET AllPaths : Cardinality(t) <= MaxFiles}

\* os.listdir(path): the entry names, or an error
listdir(path) ==
    IF path \in unlistable THEN [ok |-> FALSE, names |-> {}]
    ELSE [ok |-> TRUE,
          names |-> CASE Len(path) = 0 -> {p.d : p \in tree}
                      [] Len(path) = 1 -> {p.m : p \in {q \in tree : q.d = path[1]}}
                      [] OTHER -> {p.f : p \in {q \in tree : q.d = path[1] /\ q.m = path[2]}}]

\* re.fullmatch('\d\d\d\d-\d\d-\d\d', x)
MatchDay(x) ==
    /\ Len(x) = 10
    /\ \A i \in 1..10 : IF i \in {5, 8} THEN x[i] = "-" ELSE IsDigit(x[i])

\* MatchMinute without the pattern: every entry of a day folder is scanned
MatchMinute_any(x) == TRUE

\* re.fullmatch('\d\d-\d\d', x)
MatchMinute(x) ==
    /\ Len(x) = 5
    /\ \A i \in 1..5 : IF i = 3 THEN x[i] = "-" ELSE IsDigit(x[i])

\* re.fullmatch('(\d\d\d\d\d\d\d\d\d)-.*\.h5', x): the text of group 1, or None
MatchH5(x) ==
    IF /\ Len(x) >= 13
       /\ \A i \in 1..9 : IsDigit(x[i])
       /\ x[10] = "-"
       /\ \A i \in 11..(Len(x) - 3) : x[i] # "\n"
       /\ SubSeq(x, Len(x) - 2, Len(x)) = <<".", "h", "5">>
    THEN SubSeq(x, 1, 9)
    ELSE None

\* the loop over h5files: r is the running maximum
RECURSIVE ScanFiles(_, _)
ScanFiles(r, names) ==
    IF names = {} THEN r
    ELSE LET x == CHOOSE n \in names : TRUE
             m == MatchH5(x)
             v == IF m = None THEN r
                  ELSE IF int(m).val > r THEN int(m).val ELSE r
         IN  ScanFiles(v, names \ {x})

\* the loop over the minute folders of one day
RECURSIVE ScanMinutes(_, _, _)
ScanMinutes(r, df, names) ==
    IF names = {} THEN r
    ELSE LET mf == CHOOSE n \in names : TRUE
             l  == listdir(<<df, mf>>)
             v  == IF l.ok THEN ScanFiles(r, l.names) ELSE r
         IN  ScanMinutes(v, df, names \ {mf})

\* the loop over the day folders
RECURSIVE ScanDays(_, _)
ScanDays(r, names) ==
    IF names = {} THEN r
    ELSE LET df == CHOOSE n \in names : TRUE
             l  == listdir(<<df>>)
             v  == IF l.ok
                   THEN ScanMinutes(r, df, {x \in l.names : MatchMinute(x)})
                   ELSE r
         IN  ScanDays(v, names \ {df})

\* RIDCounter._last_rid_from_results
_last_rid_from_results ==
    LET l == listdir(<<>>)
    IN  IF l.ok THEN ScanDays(-1, {x \in l.names : MatchDay(x)}) ELSE -1

\* RIDCounter._last_rid_from_cache: FileNotFoundError, ValueError or the value
_last_rid_from_cache ==
    IF cache = None THEN [err |-> "FileNotFoundError", val |-> 0]
    ELSE IF int(cache).ok THEN [err |-> None, val |-> int(cache).val]
    ELSE [err |-> "ValueError", val |-> 0]

(***************************************************************************)
(* RIDCounter, step by step.  pc is "down" while no RIDCounter exists,     *)
(* "idle" between calls, "failed" after the constructor raised, and names  *)
(* the next statement of _update_cache otherwise.                          *)
(***************************************************************************)
InitCaches == {None, <<"5", "\n">>}

InitRIDCounter ==
    /\ cache \in InitCaches
    /\ cache0 = cache
    /\ old = cache
    /\ pending = <<>>
    /\ tmp = None
    /\ tree \in Trees
    /\ unlistable \in SUBSET {<<>>, <<DayOk>>, <<DayOk, MinuteOk>>}
    /\ pc = "down"
    /\ next_rid = None
    /\ rid = None
    /\ caller = None
    /\ returned = <<>>
    /\ gets = 0
    /\ restarts = 0
    /\ crashes = 0

\* __init__ taking the greater of the cache value and the scanned value
Construct_scan_always ==
    /\ pc = "down"
    /\ LET c == _last_rid_from_cache
           r == _last_rid_from_results
       IN  IF c.err = None
           THEN /\ next_rid' = (IF r > c.val THEN r ELSE c.val) + 1
                /\ pc' = "idle"
                /\ UNCHANGED <<rid, caller, old, pending>>
           ELSE IF c.err = "FileNotFoundError"
           THEN /\ rid' = r
                /\ caller' = "init"
                /\ old' = cache
                /\ pending' = <<r>>
                /\ pc' = "create"
                /\ UNCHANGED next_rid
           ELSE /\ pc' = "failed"
                /\ UNCHANGED <<next_rid, rid, caller, old, pending>>
    /\ UNCHANGED <<cache, tmp, tree, unlistable, returned, cache0,
                   gets, restarts, crashes>>
    /\ UNCHANGED notrid

\* __init__ without the  + 1  of line 22, for a cache file that is present
Construct_reuse ==
    /\ pc = "down"
    /\ LET c == _last_rid_from_cache
       IN  IF c.err = None
           THEN /\ next_rid' = c.val
                /\ pc' = "idle"
                /\ UNCHANGED <<rid, caller, old, pending>>
           ELSE IF c.err = "FileNotFoundError"
           THEN /\ rid' = _last_rid_from_results
                /\ caller' = "init"
                /\ old' = cache
                /\ pending' = <<_last_rid_from_results>>
                /\ pc' = "create"
                /\ UNCHANGED next_rid
           ELSE /\ pc' = "failed"
                /\ UNCHANGED <<next_rid, rid, caller, old, pending>>
    /\ UNCHANGED <<cache, tmp, tree, unlistable, returned, cache0,
                   gets, restarts, crashes>>
    /\ UNCHANGED notrid

\* RIDCounter.__init__ with _last_rid, up to the call of _update_cache
Construct ==
    /\ pc = "down"
    /\ LET c == _last_rid_from_cache
       IN  IF c.err = None
           THEN /\ next_rid' = c.val + 1
                /\ pc' = "idle"
                /\ UNCHANGED <<rid, caller, old, pending>>
           ELSE IF c.err = "FileNotFoundError"
           THEN /\ rid' = _last_rid_from_results
                /\ caller' = "init"
                /\ old' = cache
                /\ pending' = <<_last_rid_from_results>>
                /\ pc' = "create"
                /\ UNCHANGED next_rid
           ELSE /\ pc' = "failed"
                /\ UNCHANGED <<next_rid, rid, caller, old, pending>>
    /\ UNCHANGED <<cache, tmp, tree, unlistable, returned, cache0,
                   gets, restarts, crashes>>
    /\ UNCHANGED notrid

\* get without  self._next_rid += 1
RIDCounter_get_no_increment ==
    /\ pc = "idle"
    /\ gets < MaxGets
    /\ gets' = gets + 1
    /\ rid' = next_rid
    /\ caller' = "get"
    /\ old' = cache
    /\ pending' = <<next_rid>>
    /\ pc' = "create"
    /\ UNCHANGED <<cache, tmp, tree, unlistable, returned, cache0, next_rid,
                   restarts, crashes>>
    /\ UNCHANGED notrid

\* RIDCounter.get, up to the call of _update_cache
RIDCounter_get ==
    /\ pc = "idle"
    /\ gets < MaxGets
    /\ gets' = gets + 1
    /\ rid' = next_rid
    /\ next_rid' = next_rid + 1
    /\ caller' = "get"
    /\ old' = cache
    /\ pending' = <<next_rid>>
    /\ pc' = "create"
    /\ UNCHANGED <<cache, tmp, tree, unlistable, returned, cache0,
                   restarts, crashes>>
    /\ UNCHANGED notrid

\* contents = str(rid) + "\n"
contents(r) == str(r) \o <<"\n">>

\* _update_cache: tempfile.NamedTemporaryFile("w", dir=directory, delete=False)
uc_create ==
    /\ pc = "create"
    /\ tmp' = <<>>
    /\ pc' = "write"
    /\ UNCHANGED <<cache, tree, unlistable, next_rid, rid, caller, returned,
                   cache0, old, pending, gets, restarts, crashes>>
    /\ UNCHANGED notrid

\* uc_write with os.replace called before f is flushed and closed
uc_write_unflushed ==
    /\ pc = "write"
    /\ pc' = "replace"
    /\ UNCHANGED <<cache, tmp, tree, unlistable, next_rid, rid, caller, returned,
                   cache0, old, pending, gets, restarts, crashes>>
    /\ UNCHANGED notrid

\* _update_cache: f.write(contents) and the close of f; the text reaches the
\* temporary file one character at a time
uc_write ==
    /\ pc = "write"
    /\ IF tmp = contents(rid)
       THEN /\ pc' = "replace"
            /\ UNCHANGED tmp
       ELSE /\ tmp' = SubSeq(contents(rid), 1, Len(tmp) + 1)
            /\ UNCHANGED pc
    /\ UNCHANGED <<cache, tree, unlistable, next_rid, rid, caller, returned,
                   cache0, old, pending, gets, restarts, crashes>>
    /\ UNCHANGED notrid

\* _update_cache: os.replace(tmpname, self.cache_filename)
uc_replace ==
    /\ pc = "replace"
    /\ cache' = tmp
    /\ tmp' = None
    /\ pc' = "return"
    /\ UNCHANGED <<tree, unlistable, next_rid, rid, caller, returned,
                   cache0, old, pending, gets, restarts, crashes>>
    /\ UNCHANGED notrid

\* the return of _update_cache to _last_rid and __init__, or to get
uc_return ==
    /\ pc = "return"
    /\ IF caller = "init"
       THEN /\ next_rid' = rid + 1
            /\ UNCHANGED returned
       ELSE /\ returned' = Append(returned, [rid |-> rid, run |-> restarts + crashes])
            /\ UNCHANGED next_rid
    /\ pc' = "idle"
    /\ UNCHANGED <<cache, tmp, tree, unlistable, rid, caller,
                   cache0, old, pending, gets, restarts, crashes>>
    /\ UNCHANGED notrid

\* the process ends between two calls; the object is lost, the files stay
Exit ==
    /\ pc = "idle"
    /\ restarts < MaxRestarts
    /\ restarts' = restarts + 1
    /\ pc' = "down"
    /\ next_rid' = None
    /\ rid' = None
    /\ caller' = None
    /\ UNCHANGED <<cache, tmp, tree, unlistable, returned, cache0, old,
                   pending, gets, crashes>>
    /\ UNCHANGED notrid

\* the process is killed at any statement; the object is lost, the cache file
\* stays, and the temporary file (delete=False, a name nothing else uses) is
\* never opened again
Crash ==
    /\ pc \notin {"down", "failed"}
    /\ crashes < MaxCrashes
    /\ crashes' = crashes + 1
    /\ pc' = "down"
    /\ next_rid' = None
    /\ rid' = None
    /\ caller' = None
    /\ tmp' = None
    /\ UNCHANGED <<cache, tree, unlistable, returned, cache0, old,
                   pending, gets, restarts>>
    /\ UNCHANGED notrid

(***************************************************************************)
(* DeviceManager.  A handle is [id, cls, close]: id tells objects apart,   *)
(* cls is "Client", "BestEffortClient" or "local", close says whether the  *)
(* object has a close attribute.                                           *)
(***************************************************************************)
\* self.ddb: name -> an alias (a str) or a descriptor (a dict).  For a local
\* device, gets lists the names its constructor asks device_mgr for, in
\* order, and close says whether its class defines close.  A Client connects
\* in its constructor, which can fail; a BestEffortClient does not fail.
DDB ==
    [core  |-> [alias |-> FALSE, type |-> "local", gets |-> <<>>, close |-> TRUE],
     dma   |-> [alias |-> FALSE, type |-> "local", gets |-> <<"main">>, close |-> FALSE],
     scope |-> [alias |-> FALSE, type |-> "local", gets |-> <<"dma", "virt">>, close |-> TRUE],
     cam   |-> [alias |-> FALSE, type |-> "controller", best_effort |-> FALSE],
     log   |-> [alias |-> FALSE, type |-> "controller", best_effort |-> TRUE],
     main  |-> [alias |-> TRUE, to |-> "core"],
     alt   |-> [alias |-> TRUE, to |-> "main"],
     loopa |-> [alias |-> TRUE, to |-> "loopb"],
     loopb |-> [alias |-> TRUE, to |-> "loopa"],
     bad   |-> [alias |-> FALSE, type |-> "remote"],
     junk  |-> [alias |-> TRUE, to |-> "bad"],
     rig   |-> [alias |-> FALSE, type |-> "local", gets |-> <<"core", "junk">>, close |-> TRUE],
     virt  |-> [alias |-> FALSE, type |-> "local", gets |-> <<>>, close |-> TRUE]]

\* self.virtual_devices
virtual_devices == [virt |-> [id |-> 0, cls |-> "local", close |-> TRUE]]

Names == DOMAIN DDB \cup DOMAIN virtual_devices

\* the name of the concrete descriptor the aliases lead to from name, as
\* <<that name>>, or <<>> when n hops do not reach one
RECURSIVE AliasEnd(_, _)
AliasEnd(name, n) ==
    IF ~DDB[name].alias THEN <<name>>
    ELSE IF n = 0 THEN <<>>
    ELSE AliasEnd(DDB[name].to, n - 1)

\* the names from which the aliases run into a cycle
Cyclic == {name \in DOMAIN DDB : AliasEnd(name, Cardinality(DOMAIN DDB)) = <<>>}

\* the concrete descriptor the aliases lead to from a name that is not cyclic
FinalDesc(name) == DDB[AliasEnd(name, Cardinality(DOMAIN DDB))[1]]

\* the handle class _create_device makes from a concrete descriptor
ClassOf(desc) ==
    IF desc.type = "local" THEN "local"
    ELSE IF desc.best_effort THEN "BestEffortClient" ELSE "Client"

NoEvent ==
    [op |-> "none", name |-> None, entered |-> FALSE, was_active |-> FALSE,
     ddb |-> FALSE, ret |-> <<>>, err |-> None, log |-> <<>>, before |-> <<>>,
     quiet |-> FALSE, uses |-> {}]

InitDeviceManager ==
    /\ active_devices = <<>>
    /\ stack = <<>>
    /\ made = 0
    /\ built = <<>>
    /\ asked = FALSE
    /\ obtained = {}
    /\ ev = NoEvent

\* name in self.active_devices
IsActive(name) == \E i \in 1..Len(active_devices) : active_devices[i].name = name

\* self.active_devices[name]
ActiveDevice(name) ==
    active_devices[CHOOSE i \in 1..Len(active_devices) : active_devices[i].name = name].dev

\* a dict that puts a new key first
SetItem_front(a, name, dev) ==
    IF \E i \in 1..Len(a) : a[i].name = name
    THEN [i \in 1..Len(a) |-> IF a[i].name = name THEN [name |-> name, dev |-> dev] ELSE a[i]]
    ELSE <<[name |-> name, dev |-> dev]>> \o a

\* self.active_devices[name] = dev on the OrderedDict: a new key goes last, a
\* key already present keeps its place
SetItem(a, name, dev) ==
    IF \E i \in 1..Len(a) : a[i].name = name
    THEN [i \in 1..Len(a) |-> IF a[i].name = name THEN [name |-> name, dev |-> dev] ELSE a[i]]
    ELSE Append(a, [name |-> name, dev |-> dev])

\* get without the two lookups: every call resolves and constructs
EnterGet_uncached(name, stk) ==
    [stack |-> Append(stk, [name |-> name, desc |-> DDB[name], phase |-> "resolve",
                            todo |-> <<>>]),
     ret |-> <<>>, ddb |-> TRUE]

\* get with the virtual devices looked up after the active devices only when
\* the device database has no entry
EnterGet_db_first(name, stk) ==
    IF IsActive(name)
    THEN [stack |-> stk, ret |-> <<ActiveDevice(name)>>, ddb |-> FALSE]
    ELSE IF name \in DOMAIN DDB
    THEN [stack |-> Append(stk, [name |-> name, desc |-> DDB[name], phase |-> "resolve",
                                 todo |-> <<>>]),
          ret |-> <<>>, ddb |-> TRUE]
    ELSE [stack |-> stk, ret |-> <<virtual_devices[name]>>, ddb |-> FALSE]

\* DeviceManager.get(name), from its first statement to desc = self.ddb.get(name),
\* called with the frames stk of the calls of get below it: the value returned
\* at once, or the new frame
EnterGet(name, stk) ==
    IF name \in DOMAIN virtual_devices
    THEN [stack |-> stk, ret |-> <<virtual_devices[name]>>, ddb |-> FALSE]
    ELSE IF IsActive(name)
    THEN [stack |-> stk, ret |-> <<ActiveDevice(name)>>, ddb |-> FALSE]
    ELSE [stack |-> Append(stk, [name |-> name, desc |-> DDB[name], phase |-> "resolve",
                                 todo |-> <<>>]),
          ret |-> <<>>, ddb |-> TRUE]

Top == stack[Len(stack)]

Below == SubSeq(stack, 1, Len(stack) - 1)

\* the experiment calls device_mgr.get(name)
DeviceManager_get ==
    /\ stack = <<>>
    /\ made < MaxHandles
    /\ \E name \in Names :
        LET r == EnterGet(name, <<>>)
        IN  /\ stack' = r.stack
            /\ ev' = [NoEvent EXCEPT !.op = "get", !.name = name, !.entered = TRUE,
                                     !.was_active = IsActive(name), !.ddb = r.ddb,
                                     !.ret = r.ret, !.before = active_devices]
    /\ asked' = TRUE
    /\ UNCHANGED <<active_devices, made, built, obtained>>
    /\ UNCHANGED notdev

\* the loop looking up the requested name again:  desc = self.ddb.get(name)
resolve_alias_same_name ==
    /\ stack # <<>>
    /\ Top.phase = "resolve"
    /\ Top.desc.alias
    /\ stack' = [stack EXCEPT ![Len(stack)].desc = DDB[Top.name]]
    /\ ev' = [NoEvent EXCEPT !.op = "resolve", !.name = Top.name, !.ddb = TRUE,
                             !.before = active_devices]
    /\ UNCHANGED <<active_devices, made, built, asked, obtained>>
    /\ UNCHANGED notdev

\* one turn of  while isinstance(desc, str): desc = self.ddb.get(desc)
resolve_alias ==
    /\ stack # <<>>
    /\ Top.phase = "resolve"
    /\ Top.desc.alias
    /\ stack' = [stack EXCEPT ![Len(stack)].desc = DDB[Top.desc.to]]
    /\ ev' = [NoEvent EXCEPT !.op = "resolve", !.name = Top.name, !.ddb = TRUE,
                             !.before = active_devices]
    /\ UNCHANGED <<active_devices, made, built, asked, obtained>>
    /\ UNCHANGED notdev

\* the handle stored under the name of the resolved descriptor
Cached_resolved(dev) ==
    /\ active_devices' = SetItem(active_devices,
                                 AliasEnd(Top.name, Cardinality(DOMAIN DDB))[1], dev)
    /\ made' = made + 1
    /\ built' = Append(built, [name |-> Top.name, dev |-> dev])
    /\ stack' = Below
    /\ ev' = [NoEvent EXCEPT !.op = "created", !.name = Top.name, !.ret = <<dev>>,
                             !.before = active_devices]
    /\ obtained' = IF Len(stack) > 1
                   THEN obtained \cup {[by |-> stack[Len(stack) - 1].name, dev |-> dev]}
                   ELSE obtained
    /\ UNCHANGED asked

\* self.active_devices[name] = dev; return dev  (to the constructor that asked,
\* or to the experiment)
Cached(dev) ==
    /\ active_devices' = SetItem(active_devices, Top.name, dev)
    /\ made' = made + 1
    /\ built' = Append(built, [name |-> Top.name, dev |-> dev])
    /\ stack' = Below
    /\ ev' = [NoEvent EXCEPT !.op = "created", !.name = Top.name, !.ret = <<dev>>,
                             !.before = active_devices]
    /\ obtained' = IF Len(stack) > 1
                   THEN obtained \cup {[by |-> stack[Len(stack) - 1].name, dev |-> dev]}
                   ELSE obtained
    /\ UNCHANGED asked

\* an exception leaves every call of get in progress (no constructor catches)
Raised(err) ==
    /\ stack' = <<>>
    /\ ev' = [NoEvent EXCEPT !.op = "raised", !.name = Top.name, !.err = err,
                             !.before = active_devices]
    /\ UNCHANGED <<active_devices, made, built, asked, obtained>>

\* _create_device returning an object for a type it does not know
_create_device_lenient ==
    /\ stack # <<>>
    /\ Top.phase = "resolve"
    /\ ~Top.desc.alias
    /\ IF Top.desc.type = "local"
       THEN /\ stack' = [stack EXCEPT ![Len(stack)].phase = "ctor",
                                      ![Len(stack)].todo = Top.desc.gets]
            /\ ev' = [NoEvent EXCEPT !.op = "ctor", !.name = Top.name,
                                     !.before = active_devices]
            /\ UNCHANGED <<active_devices, made, built, asked, obtained>>
       ELSE IF Top.desc.type = "controller"
       THEN IF Top.desc.best_effort
            THEN Cached([id |-> made + 1, cls |-> "BestEffortClient", close |-> FALSE])
            ELSE \E connected \in BOOLEAN :
                    IF connected
                    THEN Cached([id |-> made + 1, cls |-> "Client", close |-> FALSE])
                    ELSE Raised("ConnectionError")
       ELSE Cached([id |-> made + 1, cls |-> "local", close |-> FALSE])
    /\ UNCHANGED notdev

\* _create_device(desc, self) for the resolved descriptor
_create_device ==
    /\ stack # <<>>
    /\ Top.phase = "resolve"
    /\ ~Top.desc.alias
    /\ IF Top.desc.type = "local"
       THEN \* device_class(device_mgr, **arguments): the constructor starts
            /\ stack' = [stack EXCEPT ![Len(stack)].phase = "ctor",
                                      ![Len(stack)].todo = Top.desc.gets]
            /\ ev' = [NoEvent EXCEPT !.op = "ctor", !.name = Top.name,
                                     !.before = active_devices]
            /\ UNCHANGED <<active_devices, made, built, asked, obtained>>
       ELSE IF Top.desc.type = "controller"
       THEN IF Top.desc.best_effort
            THEN Cached([id |-> made + 1, cls |-> "BestEffortClient", close |-> FALSE])
            ELSE \E connected \in BOOLEAN :
                    IF connected
                    THEN Cached([id |-> made + 1, cls |-> "Client", close |-> FALSE])
                    ELSE Raised("ConnectionError")
       ELSE Raised("ValueError")
    /\ UNCHANGED notdev

\* the constructor of a local device: it asks device_mgr for the devices it
\* uses, one call of get at a time, then returns the new object
constructor ==
    /\ stack # <<>>
    /\ Top.phase = "ctor"
    /\ IF Top.todo # <<>>
       THEN LET dep == Head(Top.todo)
                stk == [stack EXCEPT ![Len(stack)].todo = Tail(Top.todo)]
                r   == EnterGet(dep, stk)
            IN  /\ stack' = r.stack
                /\ ev' = [NoEvent EXCEPT !.op = "get", !.name = dep, !.entered = TRUE,
                                         !.was_active = IsActive(dep), !.ddb = r.ddb,
                                         !.ret = r.ret, !.before = active_devices]
                /\ obtained' = IF r.ret # <<>>
                               THEN obtained \cup {[by |-> Top.name, dev |-> r.ret[1]]}
                               ELSE obtained
                /\ UNCHANGED <<active_devices, made, built, asked>>
       ELSE Cached([id |-> made + 1, cls |-> "local", close |-> Top.desc.close])
    /\ UNCHANGED notdev

\* reversed(list(self.active_devices.values()))
CloseOrder(a) == [i \in 1..Len(a) |-> a[Len(a) + 1 - i].dev]

\* the body of the loop of close_devices for one dev: what is called on it
CloseCall(dev) ==
    IF dev.cls \in {"Client", "BestEffortClient"} THEN "close_rpc"
    ELSE IF dev.close THEN "close"
    ELSE None

\* the loop in the order of the requests
CloseLoop_forward(devs, raising) ==
    [i \in 1..Len(devs) |->
        LET dev == devs[Len(devs) + 1 - i]
        IN  [dev |-> dev, call |-> CloseCall(dev),
             raised |-> CloseCall(dev) # None /\ dev.id \in raising]]

\* the loop of close_devices over devs; the close of a dev whose id is in
\* raising raises an Exception, which is caught and logged
RECURSIVE CloseLoop(_, _)
CloseLoop(devs, raising) ==
    IF devs = <<>> THEN <<>>
    ELSE LET dev  == Head(devs)
             call == CloseCall(dev)
         IN  <<[dev |-> dev, call |-> call,
                raised |-> call # None /\ dev.id \in raising]>>
             \o CloseLoop(Tail(devs), raising)

\* close_devices without  self.active_devices.clear()
close_devices_keep ==
    /\ stack = <<>>
    /\ \E raising \in SUBSET {active_devices[i].dev.id : i \in 1..Len(active_devices)} :
        ev' = [NoEvent EXCEPT !.op = "close_devices",
                              !.log = CloseLoop(CloseOrder(active_devices), raising),
                              !.before = active_devices, !.quiet = ~asked,
                              !.uses = obtained]
    /\ obtained' = {}
    /\ built' = <<>>
    /\ asked' = FALSE
    /\ UNCHANGED <<active_devices, stack, made>>
    /\ UNCHANGED notdev

\* DeviceManager.close_devices
close_devices ==
    /\ stack = <<>>
    /\ \E raising \in SUBSET {active_devices[i].dev.id : i \in 1..Len(active_devices)} :
        ev' = [NoEvent EXCEPT !.op = "close_devices",
                              !.log = CloseLoop(CloseOrder(active_devices), raising),
                              !.before = active_devices, !.quiet = ~asked,
                              !.uses = obtained]
    /\ obtained' = {}
    /\ active_devices' = <<>>
    /\ built' = <<>>
    /\ asked' = FALSE
    /\ UNCHANGED <<stack, made>>
    /\ UNCHANGED notdev

(***************************************************************************)
(* DatasetManager.  A dataset value is a reference: NoneRef is Python's    *)
(* None, any other reference names an array object of the heap, so that    *)
(* the same object can sit under several keys and in both mappings.        *)
(***************************************************************************)
NoneRef == 0

Refs == 1..NumObjs

Keys == {"k1", "k2"}

\* the arrays have one element, which is 0 or 1
Indices == {1}

Elems == {0, 1}

InitDatasetManager ==
    /\ heap = [r \in Refs |-> [i \in Indices |-> 0]]
    /\ local = <<>>
    /\ broadcast = <<>>
    /\ lastb = [k \in Keys |-> <<>>]
    /\ dsev = [op |-> "none", key |-> None, err |-> None, pub |-> <<>>,
               index |-> 0, value |-> 0]

\* d[key] = value on a dict
Put(d, key, value) ==
    [k \in DOMAIN d \cup {key} |-> IF k = key THEN value ELSE d[k]]

\* what a Notifier hands to self.broadcast.publish (ddb.update) for a write
\* made through it
Mod(path, key, value) ==
    [action |-> "setitem", path |-> path, key |-> key, value |-> value]

\* set without  if persist: broadcast = True
DatasetManager_set_unforced ==
    \E key \in Keys, value \in Refs \cup {NoneRef}, bc, persist, save \in BOOLEAN :
        /\ broadcast' = IF bc THEN Put(broadcast, key, <<persist, value>>) ELSE broadcast
        /\ local' = IF save THEN Put(local, key, value) ELSE local
        /\ lastb' = IF bc \/ persist
                    THEN [lastb EXCEPT ![key] = <<persist, value, bc>>]
                    ELSE lastb
        /\ dsev' = [op |-> "set", key |-> key, err |-> None,
                    pub |-> IF bc THEN <<Mod(<<>>, key, <<persist, value>>)>> ELSE <<>>,
                    index |-> 0, value |-> 0]
        /\ UNCHANGED heap
        /\ UNCHANGED notds

\* DatasetManager.set(key, value, broadcast, persist, save)
DatasetManager_set ==
    \E key \in Keys, value \in Refs \cup {NoneRef}, bc, persist, save \in BOOLEAN :
        LET b == IF persist THEN TRUE ELSE bc
        IN  /\ broadcast' = IF b THEN Put(broadcast, key, <<persist, value>>) ELSE broadcast
            /\ local' = IF save THEN Put(local, key, value) ELSE local
            /\ lastb' = IF bc \/ persist
                        THEN [lastb EXCEPT ![key] = <<persist, value, bc>>]
                        ELSE lastb
            /\ dsev' = [op |-> "set", key |-> key, err |-> None,
                        pub |-> IF b THEN <<Mod(<<>>, key, <<persist, value>>)>> ELSE <<>>,
                        index |-> 0, value |-> 0]
            /\ UNCHANGED heap
            /\ UNCHANGED notds

\* the target with  elif key in self.broadcast.read
MutateTarget_local_first(key) ==
    IF key \in DOMAIN local THEN [in |-> "local", ref |-> local[key]]
    ELSE IF key \in DOMAIN broadcast
    THEN [in |-> "broadcast", ref |-> broadcast[key][2]]
    ELSE [in |-> None, ref |-> NoneRef]

\* where mutate writes: [in |-> the mapping the target came from,
\* ref |-> the object]; in is None when the key is in neither mapping
MutateTarget(key) ==
    LET t0 == [in |-> None, ref |-> NoneRef]
        t1 == IF key \in DOMAIN local THEN [in |-> "local", ref |-> local[key]] ELSE t0
    IN  IF key \in DOMAIN broadcast
        THEN [in |-> "broadcast", ref |-> broadcast[key][2]]
        ELSE t1

\* mutate without  if target is None: raise KeyError
DatasetManager_mutate_unchecked ==
    \E key \in Keys, index \in Indices, value \in Elems :
        LET t   == MutateTarget(key)
            err == IF t.ref = NoneRef THEN "TypeError" ELSE None
        IN  /\ heap' = IF err = None THEN [heap EXCEPT ![t.ref][index] = value] ELSE heap
            /\ dsev' = [op |-> "mutate", key |-> key, err |-> err,
                        pub |-> IF err = None /\ t.in = "broadcast"
                                THEN <<Mod(<<key, 1>>, index, value)>> ELSE <<>>,
                        index |-> index, value |-> value]
            /\ UNCHANGED <<local, broadcast, lastb>>
            /\ UNCHANGED notds

\* mutate that rebinds the key to another array instead of writing the
\* element of the one it holds
DatasetManager_mutate_replace ==
    \E key \in Keys, index \in Indices, value \in Elems :
        LET t   == MutateTarget(key)
            err == IF t.in = "broadcast"
                   THEN IF t.ref = NoneRef THEN "TypeError" ELSE None
                   ELSE IF t.ref = NoneRef THEN "KeyError" ELSE None
            new == IF t.ref = NumObjs THEN 1 ELSE t.ref + 1
        IN  /\ heap' = IF err = None THEN [heap EXCEPT ![new][index] = value] ELSE heap
            /\ broadcast' = IF err = None /\ t.in = "broadcast"
                             THEN Put(broadcast, key, <<broadcast[key][1], new>>)
                             ELSE broadcast
            /\ local' = IF err = None /\ t.in = "local" THEN Put(local, key, new) ELSE local
            /\ dsev' = [op |-> "mutate", key |-> key, err |-> err,
                        pub |-> IF err = None /\ t.in = "broadcast"
                                THEN <<Mod(<<key, 1>>, index, value)>> ELSE <<>>,
                        index |-> index, value |-> value]
            /\ UNCHANGED lastb
            /\ UNCHANGED notds

\* mutate writing the local value and the broadcast value of a key in both
DatasetManager_mutate_both ==
    \E key \in Keys, index \in Indices, value \in Elems :
        LET t   == MutateTarget(key)
            err == IF t.in = "broadcast"
                   THEN IF t.ref = NoneRef THEN "TypeError" ELSE None
                   ELSE IF t.ref = NoneRef THEN "KeyError" ELSE None
            l   == IF key \in DOMAIN local /\ local[key] # NoneRef
                   THEN local[key] ELSE t.ref
        IN  /\ heap' = IF err = None
                       THEN [r \in DOMAIN heap |->
                                IF r \in {t.ref, l}
                                THEN [heap[r] EXCEPT ![index] = value] ELSE heap[r]]
                       ELSE heap
            /\ dsev' = [op |-> "mutate", key |-> key, err |-> err,
                        pub |-> IF err = None /\ t.in = "broadcast"
                                THEN <<Mod(<<key, 1>>, index, value)>> ELSE <<>>,
                        index |-> index, value |-> value]
            /\ UNCHANGED <<local, broadcast, lastb>>
            /\ UNCHANGED notds

\* DatasetManager.mutate(key, index, value).  A target taken from
\* self.broadcast is a Notifier around the value, never None itself; the
\* write through it is published.
DatasetManager_mutate ==
    \E key \in Keys, index \in Indices, value \in Elems :
        LET t   == MutateTarget(key)
            err == IF t.in = "broadcast"
                   THEN IF t.ref = NoneRef THEN "TypeError" ELSE None
                   ELSE IF t.ref = NoneRef THEN "KeyError" ELSE None
        IN  /\ heap' = IF err = None THEN [heap EXCEPT ![t.ref][index] = value] ELSE heap
            /\ dsev' = [op |-> "mutate", key |-> key, err |-> err,
                        pub |-> IF err = None /\ t.in = "broadcast"
                                THEN <<Mod(<<key, 1>>, index, value)>> ELSE <<>>,
                        index |-> index, value |-> value]
            /\ UNCHANGED <<local, broadcast, lastb>>
            /\ UNCHANGED notds

NextDS ==
    \/ DatasetManager_set
    \/ DatasetManager_mutate

(***************************************************************************)
(* result_dict_to_hdf5.  A value is a record whose ty is its Python type;  *)
(* a string is a sequence of code points, its encoding a sequence of       *)
(* bytes.  Native integers are within the range of np.int64.               *)
(***************************************************************************)
H5Names == {"a", "b"}

\* the code points of "a", of e with acute accent, and of the euro sign
Chars == {97, 233, 8364}

Strings == UNION {[1..n -> Chars] : n \in 0..MaxStr}

\* the fixed-width numpy scalar types
NpTypes == {"np.int8", "np.int16", "np.int32", "np.int64",
            "np.uint8", "np.uint16", "np.uint32", "np.uint64",
            "np.float16", "np.float32", "np.float64"}

_type_to_hdf5 ==
    [ty \in {"int", "float"} \cup NpTypes |->
        CASE ty = "int"        -> "STD_I64BE"
          [] ty = "float"      -> "IEEE_F64BE"
          [] ty = "np.int8"    -> "STD_I8BE"
          [] ty = "np.int16"   -> "STD_I16BE"
          [] ty = "np.int32"   -> "STD_I32BE"
          [] ty = "np.int64"   -> "STD_I64BE"
          [] ty = "np.uint8"   -> "STD_U8BE"
          [] ty = "np.uint16"  -> "STD_U16BE"
          [] ty = "np.uint32"  -> "STD_U32BE"
          [] ty = "np.uint64"  -> "STD_U64BE"
          [] ty = "np.float16" -> "IEEE_F16BE"
          [] ty = "np.float32" -> "IEEE_F32BE"
          [] ty = "np.float64" -> "IEEE_F64BE"]

\* the values a result dict may hold; the last ones have no HDF5 type
Values ==
    [ty : {"bool"}, b : BOOLEAN]
        \cup [ty : {"int"}, n : {-1, 0, 1, 300}]
        \cup [ty : {"float"}, n : {2}]
        \cup [ty : NpTypes, n : {1}]
        \cup [ty : {"ndarray"}, dtype : {"int32", "bool"}, elems : {<<1, 0>>}]
        \cup [ty : {"str"}, s : Strings]
        \cup [ty : {"object", "np.bool_"}]

\* the dicts: every sequence of items with distinct names
RDs ==
    {r \in UNION {[1..n -> [name : H5Names, data : Values]] :
                        n \in 0..Cardinality(H5Names)} :
        \A i, j \in 1..Len(r) : r[i].name = r[j].name => i = j}

\* isinstance(data, cls) for cls bool and int: bool is a subclass of int
isinstance(data, cls) ==
    IF cls = "bool" THEN data.ty = "bool" ELSE data.ty \in {"bool", "int"}

\* the integer a bool or int converts to: np.int8(data), np.int64(data)
IntOf(data) == IF data.ty = "bool" THEN (IF data.b THEN 1 ELSE 0) ELSE data.n

\* the type tests with the int test first
Convert_int_first(data) ==
    IF isinstance(data, "int")
    THEN [data |-> [ty |-> "np.int64", n |-> IntOf(data)], flag |-> "py_int"]
    ELSE IF isinstance(data, "bool")
    THEN [data |-> [ty |-> "np.int8", n |-> IntOf(data)], flag |-> "py_bool"]
    ELSE [data |-> data, flag |-> None]

\* if isinstance(data, bool) ... elif isinstance(data, int) ...
Convert(data) ==
    IF isinstance(data, "bool")
    THEN [data |-> [ty |-> "np.int8", n |-> IntOf(data)], flag |-> "py_bool"]
    ELSE IF isinstance(data, "int")
    THEN [data |-> [ty |-> "np.int64", n |-> IntOf(data)], flag |-> "py_int"]
    ELSE [data |-> data, flag |-> None]

\* the UTF-8 bytes of one code point below 65536
Utf8(c) ==
    IF c < 128 THEN <<c>>
    ELSE IF c < 2048 THEN <<192 + (c \div 64), 128 + (c % 64)>>
    ELSE <<224 + (c \div 4096), 128 + ((c \div 64) % 64), 128 + (c % 64)>>

\* data.encode()
RECURSIVE encode(_)
encode(s) == IF s = <<>> THEN <<>> ELSE Utf8(Head(s)) \o encode(Tail(s))

\* "S{}".format(len(data)), taken before data is encoded
StringType(s) == <<"S">> \o str(Len(s))

\* the dataset created for the converted data, or the TypeError
CreateDataset(data, attrs) ==
    IF data.ty = "ndarray"
    THEN [err |-> None,
          ds |-> [kind |-> "array", dtype |-> data.dtype,
                  shape |-> <<Len(data.elems)>>, data |-> data.elems,
                  attrs |-> attrs]]
    ELSE IF data.ty = "str"
    THEN [err |-> None,
          ds |-> [kind |-> "string", dtype |-> StringType(data.s),
                  shape |-> <<>>, data |-> encode(data.s), attrs |-> attrs]]
    ELSE IF data.ty \in DOMAIN _type_to_hdf5
    THEN [err |-> None,
          ds |-> [kind |-> "scalar", dtype |-> _type_to_hdf5[data.ty],
                  shape |-> <<>>, data |-> data.n, attrs |-> attrs]]
    ELSE [err |-> "TypeError"]

\* for name, data in rd.items(): ...  The datasets written before an
\* exception stay in the file.
RECURSIVE WriteItems(_, _)
WriteItems(file, items) ==
    IF items = <<>> THEN [f |-> file, err |-> None]
    ELSE LET c == Convert(Head(items).data)
             d == CreateDataset(c.data,
                                IF c.flag # None THEN {<<c.flag, 1>>} ELSE {})
         IN  IF d.err # None THEN [f |-> file, err |-> d.err]
             ELSE WriteItems(Put(file, Head(items).name, d.ds), Tail(items))

\* no call of result_dict_to_hdf5 is made
IdleH5 ==
    /\ rd = <<>>
    /\ h5f = <<>>
    /\ h5ret = <<>>

\* result_dict_to_hdf5(f, rd)
result_dict_to_hdf5 ==
    /\ h5ret = <<>>
    /\ LET r == WriteItems(h5f, rd)
       IN  /\ h5f' = r.f
           /\ h5ret' = <<r.err>>
    /\ UNCHANGED rd
    /\ UNCHANGED noth5

NextH5 ==
    \/ result_dict_to_hdf5

(***************************************************************************)
(* The specifications: one per component, the other components idle.       *)
(***************************************************************************)
NextDev ==
    \/ DeviceManager_get
    \/ resolve_alias
    \/ _create_device
    \/ constructor
    \/ close_devices

\* no RIDCounter is used: its files are absent
IdleRIDCounter ==
    /\ cache = None
    /\ cache0 = None
    /\ old = None
    /\ pending = <<>>
    /\ tmp = None
    /\ tree = {}
    /\ unlistable = {}
    /\ pc = "down"
    /\ next_rid = None
    /\ rid = None
    /\ caller = None
    /\ returned = <<>>
    /\ gets = 0
    /\ restarts = 0
    /\ crashes = 0

InitDev == InitDeviceManager /\ InitDatasetManager /\ IdleRIDCounter /\ IdleH5

SpecDev == InitDev /\ [][NextDev]_vars

\* A call of get in progress runs on: the thread executes the next turn of
\* the alias loop, the next statement of _create_device or of a constructor.
SpecDevFair ==
    /\ SpecDev
    /\ WF_vars(resolve_alias)
    /\ WF_vars(_create_device)
    /\ WF_vars(constructor)

NextRID ==
    \/ Construct
    \/ RIDCounter_get
    \/ uc_create
    \/ uc_write
    \/ uc_replace
    \/ uc_return
    \/ Exit

InitRID == InitRIDCounter /\ InitDeviceManager /\ InitDatasetManager /\ IdleH5

InitDS == InitDatasetManager /\ InitDeviceManager /\ IdleRIDCounter /\ IdleH5

SpecDS == InitDS /\ [][NextDS]_vars

SpecRID == InitRID /\ [][NextRID]_vars

\* The same program with crashes, started on a small results tree.
InitCrash ==
    /\ InitRID
    /\ tree \in {{}, {[d |-> DayOk, m |-> MinuteOk, f |-> File7]}}
    /\ unlistable = {}

NextCrash ==
    \/ NextRID
    \/ Crash

SpecCrash == InitCrash /\ [][NextCrash]_vars

\* a file just opened by get_hdf5_output and a result dict
InitH5 ==
    /\ rd \in RDs
    /\ h5f = <<>>
    /\ h5ret = <<>>
    /\ InitDeviceManager
    /\ InitDatasetManager
    /\ IdleRIDCounter

SpecH5 == InitH5 /\ [][NextH5]_vars

(***************************************************************************)
(* Claims about RIDCounter.                                                *)
(***************************************************************************)
\* no cache file and no result file when the behaviour started
Fresh == cache0 = None /\ tree = {}

\* C1: started with no cache file and no result files, the k-th get() returns
\* k-1, also when the RIDCounter was constructed again from the cache file
\* between two calls: 0, 1, 2, ... with no repeated and no skipped id.
C1_Sequence ==
    Fresh => \A k \in 1..Len(returned) : returned[k].rid = k - 1

C1_Witness ==
    /\ Fresh
    /\ Len(returned) = 3
    /\ returned[2].run < returned[3].run

\* The largest RID of a file <root>/<YYYY-MM-DD>/<HH-MM>/<9 digits>-<name>.h5
\* in the readable part of the tree, stated from the names: -1 when none.
WellNamed == {[d |-> DayOk, m |-> MinuteOk, f |-> File7],
              [d |-> DayOk, m |-> MinuteOk, f |-> File12]}

RidOfName(f) == IF f = File7 THEN 7 ELSE 12

Readable(p) ==
    /\ <<>> \notin unlistable
    /\ <<p.d>> \notin unlistable
    /\ <<p.d, p.m>> \notin unlistable

FoundRids == {RidOfName(p.f) : p \in {q \in tree \cap WellNamed : Readable(q)}}

ExpectedLast ==
    IF FoundRids = {} THEN -1
    ELSE CHOOSE r \in FoundRids : \A o \in FoundRids : o <= r

Complete(s) ==
    /\ Len(s) >= 2
    /\ s[Len(s)] = "\n"
    /\ \A i \in 1..(Len(s) - 1) : s[i] # "\n"
    /\ int(s).ok

\* C3: at every step of _update_cache and after a crash at any step, the
\* cache file is what it was when the update was entered or the complete new
\* text; it is absent or holds one complete decimal value, never a part.
C3_Atomic ==
    /\ \/ cache = old
       \/ pending # <<>> /\ cache = contents(pending[1])
    /\ cache # None => Complete(cache)

\* the process was killed inside an update, before the rename, and the cache
\* file still holds the value stored before
C3_Witness ==
    /\ pc = "down"
    /\ crashes >= 1
    /\ pending # <<>>
    /\ cache # None
    /\ cache = old
    /\ cache # contents(pending[1])

(***************************************************************************)
(* Claims about DeviceManager.                                             *)
(***************************************************************************)
\* a handle close_devices has something to call on
Closable(dev) == dev.cls # "local" \/ dev.close

VirtualHandles == {virtual_devices[n] : n \in DOMAIN virtual_devices}

\* C4: close_devices goes through every cached handle exactly once, in the
\* reverse of the order in which the handles entered active_devices, calling
\* the close of each handle that has one; a close that raises does not stop
\* the handles entered earlier from being closed.
C4_ReverseOrder ==
    ev.op = "close_devices" =>
        LET n == Len(ev.before)
        IN  /\ Len(ev.log) = n
            /\ \A i \in 1..n : ev.log[i].dev = ev.before[n + 1 - i].dev
            /\ \A i \in 1..n : (ev.log[i].call # None) <=> Closable(ev.log[i].dev)
            /\ \A i, j \in 1..n : i # j => ev.log[i].dev # ev.log[j].dev

\* three handles, the close of the second one closed raises, the handle
\* created first is closed after it
C4_Witness ==
    /\ ev.op = "close_devices"
    /\ Len(ev.log) = 3
    /\ ev.log[2].raised
    /\ ev.log[3].call # None
    /\ ~ev.log[3].raised

\* C5: when close_devices has returned, active_devices is empty whichever
\* closes raised; a close_devices with no get since the previous one calls
\* no close at all.
C5_EmptyAfterClose ==
    ev.op = "close_devices" =>
        /\ active_devices = <<>>
        /\ ev.quiet => ev.log = <<>>

\* handles were made and closed, and close_devices was called again
C5_Witness ==
    /\ ev.op = "close_devices"
    /\ ev.quiet
    /\ made >= 2

\* C6: between two teardowns at most one handle is constructed for a name,
\* the handle cached is that one, and a get of a name that is active returns
\* the cached handle, reads nothing from the device database and constructs
\* nothing.
C6_ConstructedOnce ==
    /\ \A i, j \in 1..Len(built) : i # j => built[i].name # built[j].name
    /\ active_devices = built
    /\ (ev.entered /\ ev.was_active /\ ev.name \notin DOMAIN virtual_devices) =>
            /\ ~ev.ddb
            /\ ev.ret = <<ActiveDevice(ev.name)>>
            /\ active_devices = ev.before

C6_Witness ==
    /\ ev.entered
    /\ ev.was_active
    /\ stack = <<>>
    /\ ev.ret = <<ActiveDevice(ev.name)>>
    /\ Len(active_devices) >= 2

\* C7: get of a virtual device returns the handle supplied, reads nothing
\* from the device database (which has an entry of the same name) and
\* leaves active_devices as it was; no virtual device is ever in
\* active_devices or closed by close_devices.
C7_Virtual ==
    /\ \A i \in 1..Len(active_devices) :
            /\ active_devices[i].name \notin DOMAIN virtual_devices
            /\ active_devices[i].dev \notin VirtualHandles
    /\ \A i \in 1..Len(ev.log) : ev.log[i].dev \notin VirtualHandles
    /\ (ev.entered /\ ev.name \in DOMAIN virtual_devices) =>
            /\ ev.ret = <<virtual_devices[ev.name]>>
            /\ ~ev.ddb
            /\ active_devices = ev.before

C7_Witness ==
    /\ ev.entered
    /\ ev.name \in DOMAIN virtual_devices
    /\ ev.name \in DOMAIN DDB
    /\ stack = <<>>
    /\ active_devices # <<>>

(***************************************************************************)
(* Claims about DatasetManager.                                            *)
(***************************************************************************)
\* C8: a set called with persist true writes (True, value) into the
\* broadcast mapping whether or not broadcast was passed: a key whose latest
\* set asking for the broadcast mapping had persist true is in the broadcast
\* mapping with the flag true and the value passed.  The local mapping holds
\* values only, no flagged entry.
C8_PersistBroadcast ==
    /\ \A k \in Keys :
            (lastb[k] # <<>> /\ lastb[k][1]) =>
                /\ k \in DOMAIN broadcast
                /\ broadcast[k] = <<TRUE, lastb[k][2]>>
    /\ \A k \in DOMAIN local : local[k] \in Refs \cup {NoneRef}

\* persist was passed true and broadcast false
C8_Witness ==
    \E k \in Keys :
        /\ lastb[k] # <<>>
        /\ lastb[k][1]
        /\ ~lastb[k][3]
        /\ k \in DOMAIN broadcast
        /\ broadcast[k][2] \in Refs

\* C9 as claimed: a mutate that succeeds on a key of the local mapping has
\* written the value at the index of the local value.
C9_PrefersLocal ==
    (/\ dsev.op = "mutate"
     /\ dsev.err = None
     /\ dsev.key \in DOMAIN local
     /\ local[dsev.key] # NoneRef) =>
        heap[local[dsev.key]][dsev.index] = dsev.value

\* C9 amended: mutate prefers the broadcast mapping.  A mutate that succeeds
\* changes exactly the element at the index of the value held for the key by
\* the broadcast mapping when the key is there, and of the value held by the
\* local mapping only when the key is not in the broadcast mapping.
C9_PrefersBroadcast ==
    [][(dsev'.op = "mutate" /\ dsev'.err = None) =>
        LET k == dsev'.key
            t == IF k \in DOMAIN broadcast THEN broadcast[k][2] ELSE local[k]
        IN  heap' = [heap EXCEPT ![t][dsev'.index] = dsev'.value]]_vars

\* the key is in both mappings with two objects: the broadcast one is written
C9_Witness ==
    /\ dsev.op = "mutate"
    /\ dsev.err = None
    /\ dsev.key \in DOMAIN local
    /\ dsev.key \in DOMAIN broadcast
    /\ local[dsev.key] # NoneRef
    /\ broadcast[dsev.key][2] # NoneRef
    /\ local[dsev.key] # broadcast[dsev.key][2]
    /\ heap[broadcast[dsev.key][2]][dsev.index] = 1
    /\ heap[local[dsev.key]][dsev.index] = 0

\* C10: mutate of a key that is in neither mapping raises KeyError, publishes
\* nothing, and leaves both mappings (their keys and values) and every array
\* as they were.
C10_AbsentKey ==
    [][(/\ dsev'.op = "mutate"
        /\ dsev'.key \notin DOMAIN local
        /\ dsev'.key \notin DOMAIN broadcast) =>
            /\ dsev'.err = "KeyError"
            /\ dsev'.pub = <<>>
            /\ local' = local
            /\ broadcast' = broadcast
            /\ heap' = heap]_vars

C10_Witness ==
    /\ dsev.op = "mutate"
    /\ dsev.err = "KeyError"
    /\ dsev.key \notin DOMAIN local
    /\ dsev.key \notin DOMAIN broadcast
    /\ local # <<>>
    /\ broadcast # <<>>

\* C11 as claimed: a mutate on a key that is only in the broadcast mapping
\* leaves the broadcast mapping's keys and flags as they were and leaves
\* every value the local mapping holds under another key as it was, whatever
\* sets came before.
C11_LocalUntouched ==
    [][(/\ dsev'.op = "mutate"
        /\ dsev'.key \in DOMAIN broadcast
        /\ dsev'.key \notin DOMAIN local) =>
            /\ broadcast' = broadcast
            /\ \A k2 \in DOMAIN local \ {dsev'.key} :
                    /\ local'[k2] = local[k2]
                    /\ local[k2] # NoneRef => heap'[local[k2]] = heap[local[k2]]]_vars

\* C11 amended: a mutate on a key that is only in the broadcast mapping
\* writes the element of the object the broadcast mapping holds for the key
\* (nothing at all when that value is None: the call fails), leaves every
\* entry of both mappings bound as it was, and leaves unchanged every local
\* value under another key that is not that same object.
C11_SharedObject ==
    [][(/\ dsev'.op = "mutate"
        /\ dsev'.key \in DOMAIN broadcast
        /\ dsev'.key \notin DOMAIN local) =>
            LET t == broadcast[dsev'.key][2]
            IN  /\ broadcast' = broadcast
                /\ local' = local
                /\ IF t = NoneRef
                   THEN dsev'.err # None /\ heap' = heap
                   ELSE /\ dsev'.err = None
                        /\ heap' = [heap EXCEPT ![t][dsev'.index] = dsev'.value]
                /\ \A k2 \in DOMAIN local :
                        (local[k2] # NoneRef /\ local[k2] # t) =>
                            heap'[local[k2]] = heap[local[k2]]]_vars

\* the key is only in the broadcast mapping, another key holds another
\* object in the local mapping: the first is written, the second is not
C11_Witness ==
    /\ dsev.op = "mutate"
    /\ dsev.err = None
    /\ dsev.key \in DOMAIN broadcast
    /\ dsev.key \notin DOMAIN local
    /\ heap[broadcast[dsev.key][2]][dsev.index] = 1
    /\ \E k2 \in DOMAIN local :
            /\ local[k2] # NoneRef
            /\ local[k2] # broadcast[dsev.key][2]
            /\ heap[local[k2]][dsev.index] = 0

(***************************************************************************)
(* Claims about result_dict_to_hdf5.                                       *)
(***************************************************************************)
\* C12: the bool test comes before the int test.  Every boolean written is a
\* scalar of the 1-byte signed type holding 0 or 1 with the py_bool
\* attribute alone; every other native integer written is a scalar of the
\* 64-bit big-endian signed type with the py_int attribute alone; numpy
\* scalars and arrays have no attribute.  A boolean or native integer is
\* written unless an item before it raised.
C12_BoolBeforeInt ==
    h5ret # <<>> =>
        \A i \in 1..Len(rd) :
            LET v == rd[i].data
                d == h5f[rd[i].name]
            IN  /\ (v.ty \in {"bool", "int"}
                        /\ \A j \in 1..(i - 1) : rd[j].name \in DOMAIN h5f) =>
                            rd[i].name \in DOMAIN h5f
                /\ rd[i].name \in DOMAIN h5f =>
                    /\ v.ty = "bool" =>
                            /\ d.kind = "scalar"
                            /\ d.dtype = "STD_I8BE"
                            /\ d.data = IF v.b THEN 1 ELSE 0
                            /\ d.attrs = {<<"py_bool", 1>>}
                    /\ v.ty = "int" =>
                            /\ d.kind = "scalar"
                            /\ d.dtype = "STD_I64BE"
                            /\ d.data = v.n
                            /\ d.attrs = {<<"py_int", 1>>}
                    /\ v.ty \in NpTypes \cup {"ndarray"} => d.attrs = {}

\* True and the native integer 1 were written side by side
C12_Witness ==
    /\ h5ret = <<None>>
    /\ \E i, j \in 1..Len(rd) :
            /\ rd[i].data = [ty |-> "bool", b |-> TRUE]
            /\ rd[j].data = [ty |-> "int", n |-> 1]
            /\ h5f[rd[i].name].dtype = "STD_I8BE"
            /\ h5f[rd[j].name].dtype = "STD_I64BE"
            /\ h5f[rd[i].name].data = h5f[rd[j].name].data

\* C13 as claimed: every string written is a fixed-length byte string whose
\* declared length is the number of bytes of the encoded string.
C13_EncodedLength ==
    h5ret # <<>> =>
        \A i \in 1..Len(rd) :
            (rd[i].data.ty = "str" /\ rd[i].name \in DOMAIN h5f) =>
                LET d == h5f[rd[i].name]
                IN  /\ d.kind = "string"
                    /\ Head(d.dtype) = "S"
                    /\ int(Tail(d.dtype)).ok
                    /\ int(Tail(d.dtype)).val = Len(encode(rd[i].data.s))

(***************************************************************************)
(* More claims about RIDCounter.                                           *)
(***************************************************************************)
\* C14: with crashes at any statement and restarts on the same cache file,
\* whenever get returns an id the cache file holds exactly that id, and the
\* id is greater than every id any incarnation returned before.
C14_NeverTwice ==
    [][returned' # returned =>
        LET r == returned'[Len(returned')].rid
        IN  /\ cache' = contents(r)
            /\ \A i \in 1..Len(returned) : returned[i].rid < r]_vars

\* a crash after the cache file was replaced and before get returned: the
\* next incarnation skips the id that was never handed out
C14_Witness ==
    /\ crashes > 0
    /\ \E i \in 1..(Len(returned) - 1) :
            /\ returned[i + 1].run # returned[i].run
            /\ returned[i + 1].rid > returned[i].rid + 1

(***************************************************************************)
(* More claims about DeviceManager.                                        *)
(***************************************************************************)
\* Every handle constructed was made from the descriptor at the end of the
\* alias chain of the name asked for; a call for a cyclic name is in the
\* alias loop, holding an alias; no cyclic name is in the active set.
AliasesFollowed ==
    /\ \A i \in 1..Len(built) :
            LET d == FinalDesc(built[i].name)
            IN  /\ built[i].name \notin Cyclic
                /\ built[i].dev.cls = ClassOf(d)
                /\ d.type = "local" => built[i].dev.close = d.close
    /\ \A i \in 1..Len(stack) :
            IF stack[i].name \in Cyclic
            THEN stack[i].phase = "resolve" /\ stack[i].desc.alias
            ELSE stack[i].phase = "ctor" => stack[i].desc = FinalDesc(stack[i].name)
    /\ \A i \in 1..Len(active_devices) : active_devices[i].name \notin Cyclic

\* a call of get for a cyclic name stays in progress and adds nothing
CycleNeverReturns ==
    [][(stack # <<>> /\ Top.name \in Cyclic) =>
            /\ stack' # <<>>
            /\ stack'[Len(stack')].name = Top.name
            /\ Len(stack') = Len(stack)
            /\ active_devices' = active_devices]_vars

\* C15: get follows aliases to the end of the chain.  A call for a name whose
\* chain ends in a concrete descriptor ends, and a handle it constructs is
\* made from that descriptor; a call for a name whose aliases run into a
\* cycle never ends and never adds a handle to the active set.
C15_AliasChain ==
    /\ []AliasesFollowed
    /\ CycleNeverReturns
    /\ (stack # <<>> /\ stack[1].name \notin Cyclic) ~> (stack = <<>>)

\* get("alt") went through two aliases and constructed the handle of core;
\* a later get("loopa") has gone round the cycle and is back at loopa's alias
C15_Witness ==
    /\ \E i \in 1..Len(active_devices) :
            /\ active_devices[i].name = "alt"
            /\ active_devices[i].dev.cls = "local"
            /\ active_devices[i].dev.close
    /\ stack # <<>>
    /\ Top.name = "loopa"
    /\ ev.op = "resolve"
    /\ Top.desc = DDB["loopa"]

\* the names whose aliases end in a descriptor of a type _create_device does
\* not know
Unsupported ==
    {name \in DOMAIN DDB \ Cyclic : FinalDesc(name).type \notin {"local", "controller"}}

\* No handle is ever made or cached for an unsupported name, so that
\* close_devices has nothing to close for it; every get of such a name,
\* an earlier failure or not, goes to the device database; and the
\* ValueError ends every call of get in progress with the active set as it
\* was.
NothingCached ==
    /\ \A i \in 1..Len(active_devices) : active_devices[i].name \notin Unsupported
    /\ \A i \in 1..Len(built) : built[i].name \notin Unsupported
    /\ (ev.op = "get" /\ ev.name \in Unsupported) =>
            /\ ev.ddb
            /\ ev.ret = <<>>
            /\ stack # <<>>
            /\ Top.name = ev.name
            /\ Top.phase = "resolve"
    /\ (ev.op = "raised" /\ ev.name \in Unsupported) =>
            /\ ev.err = "ValueError"
            /\ stack = <<>>
            /\ active_devices = ev.before
    /\ ev.op = "close_devices" =>
            \A i \in 1..Len(ev.before) : ev.before[i].name \notin Unsupported

\* every step of a call of get for an unsupported name leaves the active set
\* alone, and the step that finds the concrete descriptor raises ValueError
FailedGetFrame ==
    [][/\ ((stack # <<>> /\ Top.name \in Unsupported)
            \/ (stack' # <<>> /\ stack'[Len(stack')].name \in Unsupported)) =>
                active_devices' = active_devices
       /\ (stack # <<>> /\ Top.name \in Unsupported /\ ~Top.desc.alias) =>
                /\ ev'.op = "raised"
                /\ ev'.err = "ValueError"
                /\ ev'.name = Top.name
                /\ stack' = <<>>]_vars

\* C16: get of a name whose resolved descriptor has a type other than
\* "local" and "controller" raises ValueError to the caller, changes nothing
\* in the active set and caches nothing under the name: close_devices has
\* no handle of it to close and a later get of the name resolves it again.
C16_Unsupported ==
    /\ []NothingCached
    /\ FailedGetFrame

\* get("junk"), an alias of a descriptor of type "remote", has just raised
\* while other devices are active
C16_Witness ==
    /\ ev.op = "raised"
    /\ ev.err = "ValueError"
    /\ ev.name = "junk"
    /\ stack = <<>>
    /\ active_devices # <<>>
    /\ active_devices = ev.before

\* C18: a handle is cached under the name passed to get.  A get of a name
\* that is not active goes to the device database and constructs, whether
\* or not a handle of the same descriptor is active under another name; what
\* it constructs is in the active set under the name asked for; two names of
\* the active set never hold the same handle; and close_devices runs over
\* every entry of the active set.
C18_CachedByName ==
    /\ \A i \in 1..Len(built) :
            \E j \in 1..Len(active_devices) : active_devices[j] = built[i]
    /\ \A i, j \in 1..Len(active_devices) :
            i # j => /\ active_devices[i].name # active_devices[j].name
                     /\ active_devices[i].dev # active_devices[j].dev
    /\ \A i \in 1..Len(active_devices) :
            LET d == FinalDesc(active_devices[i].name)
            IN  /\ active_devices[i].dev.cls = ClassOf(d)
                /\ d.type = "local" => active_devices[i].dev.close = d.close
    /\ (/\ ev.op = "get"
        /\ ev.name \notin DOMAIN virtual_devices
        /\ ~ev.was_active) => (ev.ddb /\ ev.ret = <<>>)
    /\ ev.op = "close_devices" =>
            /\ Len(ev.log) = Len(ev.before)
            /\ \A i \in 1..Len(ev.before) :
                    \E j \in 1..Len(ev.log) : ev.log[j].dev = ev.before[i].dev

\* get("main"), get("core"), get("alt"), main and alt aliases of core: the
\* alias before its target and the target before an alias.  Three handles of
\* core's descriptor, and close_devices has closed the three.
C18_Witness ==
    /\ ev.op = "close_devices"
    /\ \E i, j, k \in 1..Len(ev.before) :
            /\ i < j
            /\ j < k
            /\ ev.before[i].name = "main"
            /\ ev.before[j].name = "core"
            /\ ev.before[k].name = "alt"
            /\ Cardinality({ev.before[i].dev.id, ev.before[j].dev.id,
                             ev.before[k].dev.id}) = 3
            /\ \A n \in {i, j, k} :
                    \E l \in 1..Len(ev.log) :
                        /\ ev.log[l].dev = ev.before[n].dev
                        /\ ev.log[l].call = "close"

(***************************************************************************)
(* More claims about DatasetManager.                                       *)
(***************************************************************************)
\* C17 as claimed: a mutate that succeeds on a key of both mappings leaves
\* the value one of the two mappings holds for the key as it was.
C17_Independent ==
    [][(/\ dsev'.op = "mutate"
        /\ dsev'.err = None
        /\ dsev'.key \in DOMAIN local
        /\ dsev'.key \in DOMAIN broadcast) =>
            LET l == local[dsev'.key]
                b == broadcast[dsev'.key][2]
            IN  \/ l = NoneRef
                \/ heap'[l] = heap[l]
                \/ heap'[b] = heap[b]]_vars

\* C17 amended: the two mappings hold references.  A mutate that succeeds on
\* a key of both mappings writes the object the broadcast mapping holds and
\* rebinds nothing; the local value of the key is as it was when it is
\* another object, and shows the write when it is that same object.
C17_SharedValue ==
    [][(/\ dsev'.op = "mutate"
        /\ dsev'.err = None
        /\ dsev'.key \in DOMAIN local
        /\ dsev'.key \in DOMAIN broadcast) =>
            LET l == local[dsev'.key]
                b == broadcast[dsev'.key][2]
            IN  /\ local' = local
                /\ broadcast' = broadcast
                /\ heap'[b][dsev'.index] = dsev'.value
                /\ (l # NoneRef /\ l # b) => heap'[l] = heap[l]
                /\ l = b => heap'[l][dsev'.index] = dsev'.value]_vars

\* the latest set of the key asked for both mappings, which hold the one
\* object; the mutate is seen through both
C17_Witness ==
    /\ dsev.op = "mutate"
    /\ dsev.err = None
    /\ dsev.key \in DOMAIN local
    /\ dsev.key \in DOMAIN broadcast
    /\ local[dsev.key] = broadcast[dsev.key][2]
    /\ lastb[dsev.key] = <<FALSE, local[dsev.key], TRUE>>
    /\ heap[local[dsev.key]][dsev.index] = 1
    /\ dsev.value = 1

\* C19 as claimed: whatever get returned to the constructor of a device is in
\* the active set before the device, and close_devices comes to the device
\* before it comes to what the constructor obtained.
C19_ClosedBeforeObtained ==
    /\ \A o \in obtained :
            \A i \in 1..Len(active_devices) :
                active_devices[i].name = o.by =>
                    \E j \in 1..(i - 1) : active_devices[j].dev = o.dev
    /\ ev.op = "close_devices" =>
            \A o \in ev.uses :
                \A n \in 1..Len(ev.before) :
                    ev.before[n].name = o.by =>
                        \E i, j \in 1..Len(ev.log) :
                            /\ i < j
                            /\ ev.log[i].dev = ev.before[n].dev
                            /\ ev.log[j].dev = o.dev

\* C19 amended: the same for every handle obtained that is not a virtual
\* device; a virtual device a constructor obtained is not in the active set
\* and close_devices does not come to it.
C19_ClosedBeforeTracked ==
    /\ \A o \in obtained :
            IF o.dev \in VirtualHandles
            THEN \A j \in 1..Len(active_devices) : active_devices[j].dev # o.dev
            ELSE \A i \in 1..Len(active_devices) :
                    active_devices[i].name = o.by =>
                        \E j \in 1..(i - 1) : active_devices[j].dev = o.dev
    /\ ev.op = "close_devices" =>
            \A o \in ev.uses :
                IF o.dev \in VirtualHandles
                THEN \A j \in 1..Len(ev.log) : ev.log[j].dev # o.dev
                ELSE \A n \in 1..Len(ev.before) :
                        ev.before[n].name = o.by =>
                            \E i, j \in 1..Len(ev.log) :
                                /\ i < j
                                /\ ev.log[i].dev = ev.before[n].dev
                                /\ ev.log[j].dev = o.dev

\* two levels: scope obtained dma, whose constructor obtained main;
\* close_devices went scope, dma, main
C19_Witness ==
    /\ ev.op = "close_devices"
    /\ \E a, b, c \in 1..Len(ev.before) :
            /\ ev.before[a].name = "scope"
            /\ ev.before[b].name = "dma"
            /\ ev.before[c].name = "main"
            /\ [by |-> "scope", dev |-> ev.before[b].dev] \in ev.uses
            /\ [by |-> "dma", dev |-> ev.before[c].dev] \in ev.uses
            /\ \E i, j, k \in 1..Len(ev.log) :
                    /\ i < j
                    /\ j < k
                    /\ ev.log[i].dev = ev.before[a].dev
                    /\ ev.log[j].dev = ev.before[b].dev
                    /\ ev.log[k].dev = ev.before[c].dev

\* C20: the results tree is consulted only when the cache file is absent.
\* _update_cache runs for the constructor only when it found no cache file,
\* and then with the scanned value; an object constructed from the scan has
\* that value (-1 when nothing was found) in the cache file; an object
\* constructed on a cache file holding c found it unchanged when it was
\* ready, and its first get returns c + 1 whatever the tree holds.
C20_ScanOnlyWithoutCache ==
    /\ (caller = "init" /\ pc \in {"create", "write", "replace", "return"}) =>
            /\ old = None
            /\ rid = _last_rid_from_results
    /\ (caller = "init" /\ pc = "idle") =>
            /\ cache = contents(_last_rid_from_results)
            /\ next_rid = _last_rid_from_results + 1
    /\ (cache0 # None /\ pc = "idle" /\ gets = 0) =>
            /\ cache = cache0
            /\ next_rid = int(cache0).val + 1
    /\ (cache0 # None /\ returned # <<>>) =>
            returned[1].rid = int(cache0).val + 1

\* the cache file held 5, the results tree holds RID 12: the first get
\* returned 6
C20_Witness ==
    /\ cache0 # None
    /\ int(cache0).val = 5
    /\ \E p \in tree : p.f = File12 /\ Readable(p) /\ p \in WellNamed
    /\ Len(returned) = 1
    /\ returned[1].rid = 6
    /\ cache = contents(6)

====
